---------------------------- MODULE Spec2Model ----------------------------
(***************************************************************************)
(* Model of the SEO analyzer: the match classifier / grouper and the form  *)
(* handlers of src/src/components/InputContent.tsx, and the analyze        *)
(* request handler of src/src/app/api/analyze/route.ts.                    *)
(*                                                                         *)
(* Strings are sequences of one-character strings, so that substring,      *)
(* template-literal formatting and property-key ordering are computed.     *)
(* JavaScript values whose type matters are tagged records [t |-> type].   *)
(***************************************************************************)
EXTENDS Integers, Sequences, FiniteSets, TLC

VARIABLES
    \* ---- component state of InputContent (useState hooks) ----
    content,        \* useState('')            : the text shown / sent with a fix
    isSubmitting,   \* useState(false)
    results,        \* useState(null)          : last stored ReadabilityResponse
    loading,        \* useState(false)
    fixedMatches,   \* useState({})            : Record<matchKey, true>
    \* ---- outcome of the classification run of one render ----
    render,         \* the classification runs made so far (lines 190-195), oldest first
    \* ---- the form (react-hook-form) and the requests of the component ----
    form,           \* useForm values: [content, language]
    pendingSubmits, \* handleSubmit calls whose validation has not finished
    analyzeCalls,   \* POST /api/analyze requests awaiting their response
    fixCalls,       \* POST /api/insert-keyword requests awaiting their response
    \* ---- the analyze request handler (route.ts, POST) ----
    pc,             \* "idle", "awaiting" (in Promise.all) or "responded"
    reqBody,        \* what the request carries as its body
    outbound,       \* the outbound calls dispatched, in dispatch order
    responses,      \* the responses the handler returned
    \* ---- the readability estimator (pure functions of InputContent.tsx) ----
    sample,         \* the text given to the estimator
    estimate,       \* what the estimator returned for it, Undefined before
    scores,         \* the scores given to getReadabilityLevel
    levels,         \* the bands it returned for them, Undefined before
    \* ---- history ----
    applied,        \* the Matches whose fix succeeded since fixedMatches was last reset
    analysed,       \* the content of the submission whose outcome is stored in results
    requested,      \* the Matches whose fix was requested since the last onsubmit started
    used,           \* how many actions the user made on the form
    last            \* the last handler step and the state it started from

formVars == <<content, isSubmitting, results, loading, fixedMatches, render,
              form, pendingSubmits, analyzeCalls, fixCalls, applied, analysed,
              requested, used, last>>

routeVars == <<pc, reqBody, outbound, responses>>

readVars == <<sample, estimate, scores, levels>>

vars == <<formVars, routeVars, readVars>>

\* the estimator's variables in the specifications that do not run it
ReadabilityUnused ==
    sample = <<>> /\ estimate = [t |-> "undefined"] /\ scores = <<>>
                /\ levels = [t |-> "undefined"]

----------------------------------------------------------------------------
(* Bounds of the model *)

\* longest Match list drawn as input of the classifier
MaxMatches == 3

\* classification runs made on one input
MaxRuns == 2

\* most fixes already recorded in the FixedMatchesMap the classifier is given
MaxFixed == 1

\* actions of the user on the form: edits of the text or of the language,
\* clicks on the submit button, clicks on an Insert button
MaxUserActions == 4

----------------------------------------------------------------------------
(* Strings *)

Min(a, b) == IF a < b THEN a ELSE b

Digits == <<"0", "1", "2", "3", "4", "5", "6", "7", "8", "9">>

IsDigit(c) == \E i \in 1..10 : Digits[i] = c

DigitValue(c) == (CHOOSE i \in 1..10 : Digits[i] = c) - 1

\* Number-to-string conversion of a template literal `${n}` for an integer n
RECURSIVE NatToString(_)
NatToString(n) ==
    IF n < 10 THEN <<Digits[n + 1]>>
    ELSE NatToString(n \div 10) \o <<Digits[(n % 10) + 1]>>

NumberToString(n) == IF n < 0 THEN <<"-">> \o NatToString(0 - n) ELSE NatToString(n)

\* String.prototype.substring(start, end) for 0 <= start <= end
Substring(s, start, end) == SubSeq(s, start + 1, Min(end, Len(s)))

\* a < b as numbers, for canonical decimal strings (no leading zero): the
\* shorter is the smaller, and of two of the same length the one with the
\* smaller digit at the first place where they differ
DecimalLess(a, b) ==
    \/ Len(a) < Len(b)
    \/ /\ Len(a) = Len(b)
       /\ \E i \in 1..Len(a) :
            /\ DigitValue(a[i]) < DigitValue(b[i])
            /\ \A j \in 1..(i - 1) : a[j] = b[j]

----------------------------------------------------------------------------
(* JavaScript values and plain objects *)

Undefined == [t |-> "undefined"]

Null == [t |-> "null"]

JsTrue == [t |-> "boolean", v |-> TRUE]

\* a property found on Object.prototype (a function, or the prototype itself)
Inherited == [t |-> "inherited"]

JsArray(items) == [t |-> "array", items |-> items]

Str_constructor == <<"c", "o", "n", "s", "t", "r", "u", "c", "t", "o", "r">>

Str___proto__ == <<"_", "_", "p", "r", "o", "t", "o", "_", "_">>

Str_toString == <<"t", "o", "S", "t", "r", "i", "n", "g">>

\* names every plain object ({}) inherits from Object.prototype
ObjectPrototypeNames == {Str_constructor, Str___proto__, Str_toString}

\* A plain object: its own keys in insertion order, and their values.
EmptyObject == [keys |-> <<>>, val |-> <<>>]

HasOwn(obj, k) == \E i \in 1..Len(obj.keys) : obj.keys[i] = k

OwnIndex(obj, k) == CHOOSE i \in 1..Len(obj.keys) : obj.keys[i] = k

\* obj[k]: own property, else the prototype chain, else undefined
Get(obj, k) ==
    IF HasOwn(obj, k) THEN obj.val[OwnIndex(obj, k)]
    ELSE IF k \in ObjectPrototypeNames THEN Inherited
    ELSE Undefined

\* obj[k] = v on a plain object: an existing key keeps its place
Put(obj, k, v) ==
    IF HasOwn(obj, k)
    THEN [obj EXCEPT !.val[OwnIndex(obj, k)] = v]
    ELSE [keys |-> Append(obj.keys, k), val |-> Append(obj.val, v)]

\* ToBoolean
Truthy(v) ==
    CASE v.t = "undefined" -> FALSE
      [] v.t = "null"      -> FALSE
      [] v.t = "boolean"   -> v.v
      [] v.t = "string"    -> Len(v.v) > 0
      [] v.t = "text"      -> v.v # ""
      [] v.t = "number"    -> v.v # 0
      [] OTHER             -> TRUE

\* 2^32 - 2, the largest array index
MaxArrayIndex == <<"4", "2", "9", "4", "9", "6", "7", "2", "9", "4">>

\* A property key that is an array index: the canonical decimal form of an
\* integer in 0 .. 2^32 - 2.
IsArrayIndex(k) ==
    /\ Len(k) > 0
    /\ \A i \in 1..Len(k) : IsDigit(k[i])
    /\ (Len(k) > 1 => k[1] # "0")
    /\ (k = MaxArrayIndex \/ DecimalLess(k, MaxArrayIndex))

\* the positions of obj.keys sorted as OrdinaryOwnPropertyKeys lists them:
\* array indices in ascending numeric order, then the other keys in insertion
\* order
KeyBefore(obj, i, j) ==
    LET a == obj.keys[i]
        b == obj.keys[j]
    IN  IF IsArrayIndex(a) /\ IsArrayIndex(b) THEN DecimalLess(a, b)
        ELSE IF IsArrayIndex(a) THEN TRUE
        ELSE IF IsArrayIndex(b) THEN FALSE
        ELSE i < j

KeyRank(obj, i) == 1 + Cardinality({j \in 1..Len(obj.keys) : KeyBefore(obj, j, i)})

\* Object.entries(obj): the [key, value] pairs in property order
ObjectEntries(obj) ==
    [r \in 1..Len(obj.keys) |->
        LET i == CHOOSE i \in 1..Len(obj.keys) : KeyRank(obj, i) = r
        IN  <<obj.keys[i], obj.val[i]>>]

----------------------------------------------------------------------------
(* Matches (type Match, InputContent.tsx lines 45-54) *)

\* number of leading characters of message that enter a matchKey
KeyPrefixLen == 20

Match(offset, length, message, replacements, text) ==
    [offset |-> offset, length |-> length, message |-> message,
     replacements |-> replacements, context |-> [text |-> text]]

\* Messages: two that agree on their first 20 characters and differ after
\* them, one that differs from them at character 20, and a short one holding
\* the separator and a digit.
MsgStem == [i \in 1..19 |-> "m"]

MsgLongA == MsgStem \o <<"m", "a">>

MsgLongB == MsgStem \o <<"m", "b", "b">>

MsgDiffAt20 == MsgStem \o <<"z", "a">>

MsgShort == <<"n", "-", "1">>

\* the Matches the grammar-check service may return
MatchPool ==
    { Match(0, 5, MsgLongA, <<<<"x">>>>, <<"b">>),
      Match(0, 5, MsgLongB, <<<<"y">>>>, <<"a">>),
      Match(0, 5, MsgDiffAt20, <<<<"x">>>>, <<"1", "0">>),
      Match(12, 3, MsgShort, <<<<"x">>, <<"y">>>>, <<"b">>),
      Match(12, 3, MsgShort, <<>>, <<"2">>),
      Match(6, 5, MsgLongA, <<<<"x">>>>, <<"0", "1">>),
      Match(1, 23, MsgShort, <<<<>>>>, Str_constructor) }

\* the key made with the whole message: `${offset}-${length}-${message}`
matchKey_WholeMessage(match) ==
    NumberToString(match.offset) \o <<"-">> \o NumberToString(match.length)
        \o <<"-">> \o match.message

\* `${match.offset}-${match.length}-${match.message.substring(0, 20)}`
matchKey(match) ==
    NumberToString(match.offset) \o <<"-">> \o NumberToString(match.length)
        \o <<"-">> \o Substring(match.message, 0, KeyPrefixLen)

----------------------------------------------------------------------------
(* The classifier and the grouper *)

\* line 166 with "at least one replacement" in place of "exactly one"
IsCorrection_AnyReplacement(match, fixed) ==
    Len(match.replacements) >= 1 /\ ~Truthy(Get(fixed, matchKey(match)))

\* the test of line 166
IsCorrection(match, fixed) ==
    Len(match.replacements) = 1 /\ ~Truthy(Get(fixed, matchKey(match)))

\* MatchesSep: forEach over matches, pushing to corrections or suggestions
MatchesSep(matches, fixed) ==
    [corrections |-> SelectSeq(matches, LAMBDA m : IsCorrection(m, fixed)),
     suggestions |-> SelectSeq(matches, LAMBDA m : ~IsCorrection(m, fixed))]

\* one iteration of the forEach of joinMatches on the sentence map so far;
\* st.threw records the TypeError of calling push on a value that has none
joinStep(st, match) ==
    LET sentence == match.context.text
        made == IF ~Truthy(Get(st.map, sentence))
                THEN Put(st.map, sentence, JsArray(<<>>))
                ELSE st.map
        target == Get(made, sentence)
    IN  IF st.threw THEN st
        ELSE IF target.t # "array" THEN [st EXCEPT !.threw = TRUE]
        ELSE [threw |-> FALSE,
              map |-> Put(made, sentence, JsArray(Append(target.items, match)))]

RECURSIVE joinFrom(_, _, _)
joinFrom(matches, i, st) ==
    IF i > Len(matches) THEN st
    ELSE joinFrom(matches, i + 1, joinStep(st, matches[i]))

\* joinMatches: the sentence map, or threw
joinMatches(matches) == joinFrom(matches, 1, [threw |-> FALSE, map |-> EmptyObject])

\* results?.corrections?.matches
ResultMatches(res) ==
    IF res.t = "null" THEN Undefined
    ELSE IF res.corrections.t = "object" THEN JsArray(res.corrections.matches)
    ELSE Undefined

\* the groups as the display enumerates them: <<sentence, matches>> pairs
Display(joined) ==
    IF joined.threw THEN <<>>
    ELSE [i \in 1..Len(joined.map.keys) |->
            <<ObjectEntries(joined.map)[i][1], ObjectEntries(joined.map)[i][2].items>>]

\* The classification run of one render (lines 190-195)
Classification(res, fixed) ==
    LET found == ResultMatches(res)
        sep   == IF Truthy(found) THEN MatchesSep(found.items, fixed)
                 ELSE [corrections |-> <<>>, suggestions |-> <<>>]
        cg    == joinMatches(sep.corrections)
        sg    == joinMatches(sep.suggestions)
    IN  [corrections |-> sep.corrections,
         suggestions |-> sep.suggestions,
         threw |-> cg.threw \/ sg.threw,
         correctionGroups |-> cg,
         suggestionGroups |-> IF cg.threw THEN [threw |-> FALSE, map |-> EmptyObject] ELSE sg]

----------------------------------------------------------------------------
(* The stored response (type ReadabilityResponse, lines 26-31) *)

\* a success response whose corrections have the shape of type Corrections
SuccessResponse(matches) ==
    [t |-> "response", success |-> TRUE,
     corrections |-> [t |-> "object", matches |-> matches]]

\* line 144 with a key made of the whole message, not of its first 20 characters
AddFixed_WholeMessage(prev, match) ==
    Put(prev,
        NumberToString(match.offset) \o <<"-">> \o NumberToString(match.length)
            \o <<"-">> \o match.message,
        JsTrue)

\* setFixedMatches(prev => ({ ...prev, [matchKey]: true }))  (line 144)
AddFixed(prev, match) == Put(prev, matchKey(match), JsTrue)

RECURSIVE FixedAfter(_)
\* the FixedMatchesMap after the fixes of the Matches of S, from empty
FixedAfter(S) ==
    IF S = {} THEN EmptyObject
    ELSE LET m == CHOOSE m \in S : TRUE
         IN  AddFixed(FixedAfter(S \ {m}), m)

----------------------------------------------------------------------------
(* SpecClassifier: the classifier and grouper applied to every Match list  *)
(* of at most MaxMatches Matches and every FixedMatchesMap of at most      *)
(* MaxFixed fixes.                                                         *)

MatchLists == UNION {[1..n -> MatchPool] : n \in 0..MaxMatches}

AppliedSets == {S \in SUBSET MatchPool : Cardinality(S) <= MaxFixed}

\* a classification run that records the corrections it lists as handled
ClassificationRun_MarksListed(res, fixed) ==
    LET out == Classification(res, fixed)
        RECURSIVE mark(_, _)
        mark(f, i) == IF i > Len(out.corrections) THEN f
                      ELSE mark(AddFixed(f, out.corrections[i]), i + 1)
    IN  [results |-> res, fixedMatches |-> mark(fixed, 1), out |-> out]

\* One classification run: what it computes and what it leaves of the state
\* it reads (lines 159-195 assign neither results nor fixedMatches).
ClassificationRun(res, fixed) ==
    [results |-> res, fixedMatches |-> fixed, out |-> Classification(res, fixed)]

InitClassifier ==
    /\ \E ms \in MatchLists : results = SuccessResponse(ms)
    /\ \E S \in AppliedSets : applied = S /\ fixedMatches = FixedAfter(S)
    /\ analysed = <<>>
    /\ requested = {}
    /\ render = <<>>
    /\ content = <<>>
    /\ isSubmitting = FALSE
    /\ loading = FALSE
    /\ form = [content |-> <<>>, language |-> <<"e", "n">>]
    /\ pendingSubmits = {}
    /\ analyzeCalls = {}
    /\ fixCalls = {}
    /\ used = 0
    /\ last = [op |-> "none"]
    /\ pc = "idle"
    /\ reqBody = Undefined
    /\ outbound = <<>>
    /\ responses = <<>>
    /\ ReadabilityUnused

Classify ==
    /\ Len(render) < MaxRuns
    /\ LET run == ClassificationRun(results, fixedMatches)
       IN  /\ results' = run.results
           /\ fixedMatches' = run.fixedMatches
           /\ render' = Append(render, [results |-> results,
                                        fixedMatches |-> fixedMatches,
                                        out |-> run.out])
    /\ UNCHANGED <<content, isSubmitting, loading, applied, analysed, requested, form, pendingSubmits,
                   analyzeCalls, fixCalls, used, last>>

NextClassifier == Classify /\ UNCHANGED <<routeVars, readVars>>

SpecClassifier == InitClassifier /\ [][NextClassifier]_vars

----------------------------------------------------------------------------
(* Vocabulary of the claims about the classifier *)

Occurs(seq, x) == \E i \in 1..Len(seq) : seq[i] = x

\* the MatchKey as the data model defines it: offset, length and the first
\* 20 characters of message
KeyTriple(m) ==
    <<m.offset, m.length, SubSeq(m.message, 1, Min(20, Len(m.message)))>>

\* the Match list a run was given
RunInput(run) == run.results.corrections.matches

\* the key of m is present in the FixedMatchesMap built from the fixes of S
KeyPresent(m, S) == \E f \in S : KeyTriple(f) = KeyTriple(m)

FirstIndexOf(seq, text) ==
    CHOOSE i \in 1..Len(seq) :
        /\ seq[i].context.text = text
        /\ \A j \in 1..(i - 1) : seq[j].context.text # text

PlaceOf(display, text) == CHOOSE i \in 1..Len(display) : display[i][1] = text

\* the groups of a bucket are displayed in the order its sentences are first seen
FirstSeenOrder(bucket, joined) ==
    joined.threw \/
    \A i, j \in 1..Len(bucket) :
        LET A == bucket[i].context.text
            B == bucket[j].context.text
        IN  FirstIndexOf(bucket, A) < FirstIndexOf(bucket, B)
                => PlaceOf(Display(joined), A) < PlaceOf(Display(joined), B)

----------------------------------------------------------------------------
(* Claims about the classifier (checked under SpecClassifier) *)

\* C1: MatchesSep puts a Match in the corrections bucket if and only if it has
\* exactly one replacement and its MatchKey (offset, length, first 20
\* characters of message) is not present in FixedMatchesMap; every other Match
\* goes to the suggestions bucket.
C1_CorrectionIffSingleAndNotFixed ==
    \A r \in 1..Len(render) :
        \A i \in 1..Len(RunInput(render[r])) :
            LET m == RunInput(render[r])[i]
                single == Len(m.replacements) = 1 /\ ~KeyPresent(m, applied)
            IN  /\ Occurs(render[r].out.corrections, m) <=> single
                /\ Occurs(render[r].out.suggestions, m) <=> ~single

\* C1 witness: one run classified a single-replacement Match whose key is
\* present as a suggestion, and another single-replacement Match as a
\* correction.
C1_Witness ==
    /\ Len(render) >= 1
    /\ \E i, j \in 1..Len(RunInput(render[1])) :
        LET m == RunInput(render[1])[i]
            n == RunInput(render[1])[j]
        IN  /\ Len(m.replacements) = 1 /\ KeyPresent(m, applied)
            /\ Occurs(render[1].out.suggestions, m)
            /\ Len(n.replacements) = 1 /\ Occurs(render[1].out.corrections, n)

\* C3: the groups produced by joinMatches and enumerated with Object.entries
\* are listed in first-seen order of their context texts, for all context
\* texts, also those that look like non-negative integers.
C3_GroupsInFirstSeenOrder ==
    \A r \in 1..Len(render) :
        /\ FirstSeenOrder(render[r].out.corrections, render[r].out.correctionGroups)
        /\ (~render[r].out.threw =>
                FirstSeenOrder(render[r].out.suggestions, render[r].out.suggestionGroups))

\* every Match of the bucket is in the group listed under its context text
Grouped(bucket, joined) ==
    /\ ~joined.threw
    /\ \A i \in 1..Len(bucket) :
        \E g \in 1..Len(Display(joined)) :
            /\ Display(joined)[g][1] = bucket[i].context.text
            /\ Occurs(Display(joined)[g][2], bucket[i])

\* C18: for every list of Matches, also with context texts that name a
\* member a plain object inherits, MatchesSep and joinMatches raise no error
\* and every Match is in a group keyed by its own context text.
C18_GroupingNeverThrows ==
    \A r \in 1..Len(render) :
        /\ ~render[r].out.threw
        /\ Grouped(render[r].out.corrections, render[r].out.correctionGroups)
        /\ Grouped(render[r].out.suggestions, render[r].out.suggestionGroups)

\* how many times x is in seq
Count(seq, x) == Cardinality({i \in 1..Len(seq) : seq[i] = x})

RECURSIVE Embeds(_, _)
\* sub is seq with some elements left out, the others in their order
Embeds(sub, seq) ==
    IF sub = <<>> THEN TRUE
    ELSE IF seq = <<>> THEN FALSE
    ELSE IF Head(sub) = Head(seq) THEN Embeds(Tail(sub), Tail(seq))
    ELSE Embeds(sub, Tail(seq))

\* the groups of a bucket lose and duplicate nothing, hold each Match under
\* its context text and keep the order of the bucket
GroupsPartition(bucket, joined) ==
    /\ ~joined.threw
    /\ \A g \in 1..Len(Display(joined)) :
        /\ \A k \in 1..Len(Display(joined)[g][2]) :
               Display(joined)[g][2][k].context.text = Display(joined)[g][1]
        /\ Embeds(Display(joined)[g][2], bucket)
    /\ \A i \in 1..Len(bucket) :
        \E g \in 1..Len(Display(joined)) :
            /\ Count(Display(joined)[g][2], bucket[i]) = Count(bucket, bucket[i])
            /\ \A h \in 1..Len(Display(joined)) :
                   h # g => ~Occurs(Display(joined)[h][2], bucket[i])

\* C22: for every Match list and FixedMatchesMap each input Match is in
\* exactly one of the two buckets and in exactly one sentence group of that
\* bucket, every Match of a group has the group's key as context text, and
\* buckets and groups keep the order of the input list.
C22_BucketsAndGroupsPartition ==
    \A r \in 1..Len(render) :
        LET input == RunInput(render[r])
            out == render[r].out
        IN  /\ \A i \in 1..Len(input) :
                   Count(out.corrections, input[i]) + Count(out.suggestions, input[i])
                       = Count(input, input[i])
            /\ \A i \in 1..Len(input) :
                   ~(Occurs(out.corrections, input[i]) /\ Occurs(out.suggestions, input[i]))
            /\ Len(out.corrections) + Len(out.suggestions) = Len(input)
            /\ Embeds(out.corrections, input)
            /\ Embeds(out.suggestions, input)
            /\ GroupsPartition(out.corrections, out.correctionGroups)
            /\ GroupsPartition(out.suggestions, out.suggestionGroups)

----------------------------------------------------------------------------
(* The form: onsubmit and handleFix (InputContent.tsx lines 67-157)        *)

\* LANGUAGES (lines 33-39): the values of the language menu
LANGUAGES == { <<"e", "n">>, <<"f", "r">>, <<"i", "t">>, <<"d", "e">>, <<"e", "s">> }

\* texts the user types into the textarea
TextAnCat == <<"a", "n", " ", "c", "a", "t">>

UserTexts == { <<>>, TextAnCat, <<"o", "k">> }

\* Matches the grammar check returns for the typed text
FixAn == Match(0, 2, MsgLongA, <<<<"a">>>>, TextAnCat)

FixAnAgain == Match(0, 2, MsgLongB, <<<<"A">>>>, TextAnCat)

FixCat == Match(3, 3, MsgDiffAt20, <<<<"c", "a", "t", "s">>>>, TextAnCat)

ChooseCat == Match(3, 3, MsgShort, <<<<"c", "a", "t", "s">>, <<"c", "o", "t">>>>, TextAnCat)

FormMatchLists == { <<>>, <<FixAn, FixCat>>, <<FixAn, FixAnAgain, ChooseCat>> }

\* a success response as route.ts builds it: corrections is the array of matches
ArrayResponse(matches) ==
    [t |-> "response", success |-> TRUE,
     corrections |-> [t |-> "array", items |-> matches]]

\* the record onsubmit stores when the analysis failed (lines 103-106, 114-117)
FailureResult ==
    [t |-> "response", success |-> FALSE, corrections |-> Undefined]

\* the bodies /api/analyze may answer a 2xx with and success = true
AnalyzeSuccessBodies ==
    {SuccessResponse(ms) : ms \in FormMatchLists}
        \cup {ArrayResponse(<<FixAn>>)}
        \cup {[t |-> "response", success |-> TRUE, corrections |-> Undefined]}

\* inputSchema, as the form's resolver applies it: content must not be empty
FormDataValid(data) == Len(data.content) > 0

\* the updated Content /api/insert-keyword returns: the span of the match
\* replaced by the replacement
InsertKeyword(text, match, replacement) ==
    SubSeq(text, 1, Min(match.offset, Len(text)))
        \o replacement
        \o SubSeq(text, match.offset + match.length + 1, Len(text))

\* setFixedMatches({}) at the start of onsubmit, ignoring what was recorded
FixedAtSubmit_Kept(prev) == prev

\* setFixedMatches({})  (line 91)
FixedAtSubmit(prev) == EmptyObject

\* setResults(response.data) keeping the Matches stored before in front of
\* those of the response
StoredResults_Merged(prev, body) ==
    IF /\ prev.t = "response" /\ prev.success /\ prev.corrections.t = "object"
       /\ body.corrections.t = "object"
    THEN [body EXCEPT !.corrections.matches = prev.corrections.matches \o @]
    ELSE body

\* setResults(response.data)  (line 95)
StoredResults(prev, body) == body

\* the state a handler step started from
Before(op, arg) ==
    [op |-> op, arg |-> arg, results |-> results, fixedMatches |-> fixedMatches,
     content |-> content, formContent |-> form.content, loading |-> loading,
     isSubmitting |-> isSubmitting, fixCalls |-> fixCalls]

InitForm ==
    /\ content = <<>>
    /\ isSubmitting = FALSE
    /\ results = Null
    /\ loading = FALSE
    /\ fixedMatches = EmptyObject
    /\ render = <<>>
    /\ form = [content |-> <<>>, language |-> <<"e", "n">>]
    /\ pendingSubmits = {}
    /\ analyzeCalls = {}
    /\ fixCalls = {}
    /\ applied = {}
    /\ analysed = <<>>
    /\ requested = {}
    /\ used = 0
    /\ last = [op |-> "none"]
    /\ pc = "idle"
    /\ reqBody = Undefined
    /\ outbound = <<>>
    /\ responses = <<>>
    /\ ReadabilityUnused

\* Textarea onChange (lines 254-257): field.onChange(e); setContent(value)
EditContent(text) ==
    /\ used < MaxUserActions
    /\ content' = text
    /\ form' = [form EXCEPT !.content = text]
    /\ used' = used + 1
    /\ last' = Before("edit", text)
    /\ UNCHANGED <<isSubmitting, results, loading, fixedMatches, render,
                   pendingSubmits, analyzeCalls, fixCalls, applied, analysed, requested>>

\* DropdownMenuItem onClick (line 232): setValue("language", lang.value)
SelectLanguage(lang) ==
    /\ used < MaxUserActions
    /\ form.language # lang
    /\ form' = [form EXCEPT !.language = lang]
    /\ used' = used + 1
    /\ last' = Before("language", lang)
    /\ UNCHANGED <<content, isSubmitting, results, loading, fixedMatches, render,
                   pendingSubmits, analyzeCalls, fixCalls, applied, analysed, requested>>

\* A click on the submit button (lines 265-268: enabled while not
\* isSubmitting) calls handleSubmit(onsubmit) (line 201), which validates the
\* form values it read before it calls onsubmit.
SubmitClick ==
    /\ ~isSubmitting
    /\ used < MaxUserActions
    /\ pendingSubmits' = pendingSubmits \cup {[id |-> used + 1, data |-> form]}
    /\ used' = used + 1
    /\ last' = Before("click", form)
    /\ UNCHANGED <<content, isSubmitting, results, loading, fixedMatches, render,
                   form, analyzeCalls, fixCalls, applied, analysed, requested>>

\* handleSubmit found the values invalid: onsubmit is not called
SubmitRejected(p) ==
    /\ p \in pendingSubmits
    /\ ~FormDataValid(p.data)
    /\ pendingSubmits' = pendingSubmits \ {p}
    /\ last' = Before("rejected", p)
    /\ UNCHANGED <<content, isSubmitting, results, loading, fixedMatches, render,
                   form, analyzeCalls, fixCalls, applied, analysed, requested, used>>

\* onsubmit up to its await (lines 89-93)
OnsubmitStart(p) ==
    /\ p \in pendingSubmits
    /\ FormDataValid(p.data)
    /\ pendingSubmits' = pendingSubmits \ {p}
    /\ isSubmitting' = TRUE
    /\ fixedMatches' = FixedAtSubmit(fixedMatches)
    /\ applied' = {}
    /\ requested' = {}
    /\ UNCHANGED analysed
    /\ analyzeCalls' = analyzeCalls \cup {p}
    /\ last' = Before("onsubmit", p)
    /\ UNCHANGED <<content, results, loading, render, form, fixCalls, used>>

\* onsubmit after a response with success = true (lines 94-101, 123)
AnalyzeSucceeded(c, body) ==
    /\ c \in analyzeCalls
    /\ analyzeCalls' = analyzeCalls \ {c}
    /\ results' = StoredResults(results, body)
    /\ isSubmitting' = FALSE
    /\ last' = Before("analyzed", [call |-> c, body |-> body])
    /\ analysed' = c.data.content
    /\ UNCHANGED requested
    /\ UNCHANGED <<content, loading, fixedMatches, render, form, pendingSubmits,
                   fixCalls, applied, used>>

\* onsubmit after a response with success = false (lines 102-111, 123)
AnalyzeRefused(c) ==
    /\ c \in analyzeCalls
    /\ analyzeCalls' = analyzeCalls \ {c}
    /\ results' = FailureResult
    /\ isSubmitting' = FALSE
    /\ last' = Before("refused", c)
    /\ analysed' = c.data.content
    /\ UNCHANGED requested
    /\ UNCHANGED <<content, loading, fixedMatches, render, form, pendingSubmits,
                   fixCalls, applied, used>>

\* onsubmit after the request threw (lines 112-123)
AnalyzeThrew(c) ==
    /\ c \in analyzeCalls
    /\ analyzeCalls' = analyzeCalls \ {c}
    /\ results' = FailureResult
    /\ isSubmitting' = FALSE
    /\ last' = Before("threw", c)
    /\ analysed' = c.data.content
    /\ UNCHANGED requested
    /\ UNCHANGED <<content, loading, fixedMatches, render, form, pendingSubmits,
                   fixCalls, applied, used>>

\* the Insert button of a Match is on display (lines 284-354): the results
\* are a success, the render did not throw, the Match is listed as a correction
InsertButtonShown(match) ==
    /\ results.t # "null"
    /\ results.success
    /\ ~Classification(results, fixedMatches).threw
    /\ Occurs(Classification(results, fixedMatches).corrections, match)

\* handleFix up to its await (lines 128-133): it returns at once when no
\* corrections are stored (line 129)
handleFix(match, replacement) ==
    /\ used < MaxUserActions
    /\ used' = used + 1
    /\ last' = Before("fix", match)
    /\ IF ~Truthy(IF results.t = "null" THEN Undefined ELSE results.corrections)
       THEN UNCHANGED <<loading, fixCalls, requested>>
       ELSE /\ loading' = TRUE
            /\ requested' = requested \cup {match}
            /\ fixCalls' = fixCalls \cup
                  {[id |-> used + 1, match |-> match,
                    replacement |-> replacement, content |-> content]}
    /\ UNCHANGED <<content, isSubmitting, results, fixedMatches, render, form,
                   pendingSubmits, analyzeCalls, applied, analysed>>

\* The Insert button calls handleFix with the Match's only replacement
\* (line 349). The button is on display only with stored corrections, so
\* the early return of line 129 is not taken.
HandleFixStart(match) ==
    /\ InsertButtonShown(match)
    /\ handleFix(match, match.replacements[1])

\* handleFix after the response (lines 135-144, 154)
FixSucceeded(c) ==
    /\ c \in fixCalls
    /\ Len(c.content) > 0
    /\ fixCalls' = fixCalls \ {c}
    /\ content' = InsertKeyword(c.content, c.match, c.replacement)
    /\ form' = [form EXCEPT !.content = InsertKeyword(c.content, c.match, c.replacement)]
    /\ fixedMatches' = AddFixed(fixedMatches, c.match)
    /\ applied' = applied \cup {c.match}
    /\ UNCHANGED <<analysed, requested>>
    /\ loading' = FALSE
    /\ last' = Before("fixed", c)
    /\ UNCHANGED <<isSubmitting, results, render, pendingSubmits, analyzeCalls, used>>

\* lines 145-155 with the key of the Match recorded although the request threw
FixFailed_MarksFixed(c) ==
    /\ c \in fixCalls
    /\ fixCalls' = fixCalls \ {c}
    /\ fixedMatches' = AddFixed(fixedMatches, c.match)
    /\ loading' = FALSE
    /\ last' = Before("fixFailed", c)
    /\ UNCHANGED <<content, isSubmitting, results, render, form,
                   pendingSubmits, analyzeCalls, applied, analysed, requested, used>>

\* handleFix after the request threw (lines 145-155)
FixFailed(c) ==
    /\ c \in fixCalls
    /\ fixCalls' = fixCalls \ {c}
    /\ loading' = FALSE
    /\ last' = Before("fixFailed", c)
    /\ UNCHANGED <<content, isSubmitting, results, fixedMatches, render, form,
                   pendingSubmits, analyzeCalls, applied, analysed, requested, used>>

NextForm ==
    \/ \E text \in UserTexts : EditContent(text) /\ UNCHANGED <<routeVars, readVars>>
    \/ \E lang \in LANGUAGES : SelectLanguage(lang) /\ UNCHANGED <<routeVars, readVars>>
    \/ SubmitClick /\ UNCHANGED <<routeVars, readVars>>
    \/ \E p \in pendingSubmits : SubmitRejected(p) /\ UNCHANGED <<routeVars, readVars>>
    \/ \E p \in pendingSubmits : OnsubmitStart(p) /\ UNCHANGED <<routeVars, readVars>>
    \/ \E c \in analyzeCalls, body \in AnalyzeSuccessBodies :
            AnalyzeSucceeded(c, body) /\ UNCHANGED <<routeVars, readVars>>
    \/ \E c \in analyzeCalls : AnalyzeRefused(c) /\ UNCHANGED <<routeVars, readVars>>
    \/ \E c \in analyzeCalls : AnalyzeThrew(c) /\ UNCHANGED <<routeVars, readVars>>
    \/ \E m \in {FixAn, FixAnAgain, FixCat, ChooseCat} :
            HandleFixStart(m) /\ UNCHANGED <<routeVars, readVars>>
    \/ \E c \in fixCalls : FixSucceeded(c) /\ UNCHANGED <<routeVars, readVars>>
    \/ \E c \in fixCalls : FixFailed(c) /\ UNCHANGED <<routeVars, readVars>>

SpecForm == InitForm /\ [][NextForm]_vars

----------------------------------------------------------------------------
(* SpecFixCall: handleFix called in every state of the component, also     *)
(* those in which no Insert button is on display.                          *)

\* what the component may hold as results when handleFix is called
ResultsAtCall ==
    { Null, FailureResult,
      [t |-> "response", success |-> TRUE, corrections |-> Undefined],
      SuccessResponse(<<>>),
      SuccessResponse(<<FixAn, FixCat>>) }

\* the Match and the replacement handleFix is called with
FixArguments == { <<FixAn, <<"a">>>>, <<FixCat, <<"c", "a", "t", "s">>>> }

InitFixCall ==
    /\ content \in UserTexts
    /\ form = [content |-> content, language |-> <<"e", "n">>]
    /\ results \in ResultsAtCall
    /\ analysed = content
    /\ requested = {}
    /\ isSubmitting = FALSE
    /\ loading = FALSE
    /\ fixedMatches = EmptyObject
    /\ render = <<>>
    /\ pendingSubmits = {}
    /\ analyzeCalls = {}
    /\ fixCalls = {}
    /\ applied = {}
    /\ used = 0
    /\ last = [op |-> "none"]
    /\ pc = "idle"
    /\ reqBody = Undefined
    /\ outbound = <<>>
    /\ responses = <<>>
    /\ ReadabilityUnused

NextFixCall ==
    \/ \E a \in FixArguments : handleFix(a[1], a[2]) /\ UNCHANGED <<routeVars, readVars>>
    \/ \E c \in fixCalls : FixSucceeded(c) /\ UNCHANGED <<routeVars, readVars>>
    \/ \E c \in fixCalls : FixFailed(c) /\ UNCHANGED <<routeVars, readVars>>

SpecFixCall == InitFixCall /\ [][NextFixCall]_vars

----------------------------------------------------------------------------
(* Claims about the form (checked under SpecForm) *)

KeySet(obj) == {obj.keys[i] : i \in 1..Len(obj.keys)}

\* the classification of the stored results, now and before the last step
Now == Classification(results, fixedMatches)

Earlier == Classification(last.results, last.fixedMatches)

\* the last step was the success of handleFix for a Match then listed as a
\* correction
FixedACorrection ==
    /\ last.op = "fixed"
    /\ Occurs(Earlier.corrections, last.arg.match)

\* C2: if a Match is in the corrections bucket and handleFix succeeds for it,
\* the next classification has it in the suggestions bucket and not in the
\* corrections bucket, and classifies as many Matches as before the fix.
C2_FixedMatchBecomesSuggestion ==
    FixedACorrection =>
        /\ Occurs(Now.suggestions, last.arg.match)
        /\ ~Occurs(Now.corrections, last.arg.match)
        /\ Len(Now.corrections) + Len(Now.suggestions)
              = Len(Earlier.corrections) + Len(Earlier.suggestions)

\* C2 witness: a fix of a correction succeeded while another correction stays
\* listed.
C2_Witness ==
    /\ FixedACorrection
    /\ Occurs(Now.suggestions, last.arg.match)
    /\ Len(Now.corrections) > 0

\* C5: FixedMatchesMap is empty right after a submission starts; no other
\* step removes a key; a successful handleFix adds exactly the MatchKey of the
\* fixed Match, and the other steps leave the key set as it is.
C5_FixedMatchesResetAndGrowth ==
    /\ last.op = "onsubmit" => KeySet(fixedMatches) = {}
    /\ last.op \notin {"none", "onsubmit"} =>
            KeySet(last.fixedMatches) \subseteq KeySet(fixedMatches)
    /\ last.op = "fixed" =>
            KeySet(fixedMatches)
                = KeySet(last.fixedMatches) \cup {matchKey(last.arg.match)}
    /\ last.op \notin {"none", "onsubmit", "fixed"} =>
            KeySet(fixedMatches) = KeySet(last.fixedMatches)

\* C5 witness: a submission started while FixedMatchesMap held a key.
C5_Witness ==
    /\ last.op = "onsubmit"
    /\ KeySet(last.fixedMatches) # {}

----------------------------------------------------------------------------
(* The analyze request handler: POST of src/app/api/analyze/route.ts       *)

JsStr(chars) == [t |-> "string", v |-> chars]

JsNum(n) == [t |-> "number", v |-> n]

\* a message: a string that is only compared, a TLA+ string
Text(string) == [t |-> "text", v |-> string]

\* supportedLanguages (line 29)
supportedLanguages ==
    { <<"e", "n">>, <<"d", "e">>, <<"f", "r">>, <<"e", "s">>, <<"i", "t">> }

\* values the "language" member of a body may have
BodyLanguages ==
    {Undefined, JsNum(7), JsStr(<<"x", "x">>), JsStr(<<"E", "N">>)}
        \cup {JsStr(l) : l \in supportedLanguages}

\* values the "content" member of a body may have
BodyContents == {Undefined, JsNum(42), JsStr(<<>>), JsStr(TextAnCat), JsStr(<<"o", "k">>)}

\* request bodies: text that is no JSON, the JSON null, and JSON objects
RequestBodies ==
    {[t |-> "malformed"], Null}
        \cup {[t |-> "object", content |-> c, language |-> l] :
                c \in BodyContents, l \in BodyLanguages}

\* inputSchema.safeParse(body): content must be a non-empty string; language
\* is optional and, when given, a string
safeParse(body) ==
    IF /\ body.t = "object"
       /\ body.content.t = "string"
       /\ Len(body.content.v) > 0
       /\ body.language.t \in {"undefined", "string"}
    THEN [success |-> TRUE, data |-> [content |-> body.content, language |-> body.language]]
    ELSE [success |-> FALSE, data |-> Undefined]

\* lines 27-30 with no fallback: the requested language is sent as it is
LangOf_AsRequested(language) ==
    IF language.t = "undefined" THEN <<"e", "n">> ELSE language.v

\* lines 27-30: language = 'en' by default; lang is language when supported,
\* else 'en'
LangOf(language) ==
    LET given == IF language.t = "undefined" THEN <<"e", "n">> ELSE language.v
    IN  IF given \in supportedLanguages THEN given ELSE <<"e", "n">>

\* line 32: !content || typeof content !== 'string'
ContentRefused(c) == ~Truthy(c) \/ c.t # "string"

\* the two axios.post calls of lines 40-66 with only the embedding call made
\* before the await
OutboundCalls_EmbeddingFirst(c, lang) ==
    << [to |-> "cohere", text |-> c.v, language |-> Undefined,
        state |-> "pending", result |-> Undefined] >>

\* the two axios.post calls of lines 40-66, made before Promise.all is awaited
OutboundCalls(c, lang) ==
    << [to |-> "cohere", text |-> c.v, language |-> Undefined,
        state |-> "pending", result |-> Undefined],
       [to |-> "languagetool", text |-> c.v, language |-> JsStr(lang),
        state |-> "pending", result |-> Undefined] >>

Response(status, success, message, error, embedding, corrections) ==
    [status |-> status,
     body |-> [success |-> success, message |-> message, error |-> error,
               embedding |-> embedding, corrections |-> corrections]]

\* lines 21-24 without { status: 400 }: the default status
InvalidInputResponse_DefaultStatus ==
    Response(200, FALSE, Text("Invalid input"), Undefined, Undefined, Undefined)

\* lines 21-24
InvalidInputResponse ==
    Response(400, FALSE, Text("Invalid input"), Undefined, Undefined, Undefined)

\* lines 33-36
ContentRequiredResponse ==
    Response(400, FALSE, Text("Content is required and must be a string."),
             Undefined, Undefined, Undefined)

\* lines 69-77
SuccessResponseOf(cohereData, languagetoolData) ==
    Response(200, TRUE, Text("Content analyzed successfully"), Undefined,
             cohereData.embeddings.items[1], JsArray(languagetoolData.matches))

\* what the catch block reads of the error: error.response, when it has one
NoResponseError == [response |-> Undefined]

UpstreamError(status, data) ==
    [response |-> [t |-> "object", status |-> status, data |-> data]]

\* lines 84-85 with the status of the response only, the message always generic
CatchResponse_GenericMessage(error) ==
    Response(IF error.response.t = "object" /\ Truthy(JsNum(error.response.status))
                THEN error.response.status ELSE 500,
             FALSE, Undefined, Text("Failed to connect to API"), Undefined, Undefined)

\* the catch block (lines 79-94)
CatchResponse(error) ==
    LET statusCode ==
            IF error.response.t = "object" /\ Truthy(JsNum(error.response.status))
            THEN error.response.status ELSE 500
        data == IF error.response.t = "object" THEN error.response.data ELSE Undefined
        message == IF data.t = "object" THEN data.message ELSE Undefined
        errorMsg == IF Truthy(message) THEN message ELSE Text("Failed to connect to API")
    IN  Response(statusCode, FALSE, Undefined, errorMsg, Undefined, Undefined)

\* the errors an outbound call may reject with: upstream responses with a
\* message, with an empty message and with a plain-text body, and no response
\* at all (a timeout, a refused connection)
UpstreamErrors ==
    { UpstreamError(429, [t |-> "object", message |-> Text("rate limit exceeded")]),
      UpstreamError(503, [t |-> "object", message |-> Text("")]),
      UpstreamError(400, Text("Error: Missing 'text' or 'data' parameter")),
      NoResponseError }

\* the data an outbound call may be fulfilled with
EmbeddingVector == [t |-> "vector"]

FulfilData(to) ==
    IF to = "cohere"
    THEN { [t |-> "object", embeddings |-> JsArray(<<EmbeddingVector>>)],
           [t |-> "object", embeddings |-> Undefined] }
    ELSE { [t |-> "object", matches |-> ms] : ms \in {<<>>, <<FixAn, FixCat>>} }

\* lines 69-77 reached after Promise.all fulfilled: the success response, or the
\* catch block's when reading embeddings[0] throws a TypeError
AfterBothFulfilled(calls) ==
    IF calls[1].result.embeddings.t = "array"
    THEN SuccessResponseOf(calls[1].result, calls[2].result)
    ELSE CatchResponse(NoResponseError)

InitRoute ==
    /\ pc = "idle"
    /\ reqBody \in RequestBodies
    /\ outbound = <<>>
    /\ responses = <<>>
    /\ ReadabilityUnused
    /\ content = <<>>
    /\ isSubmitting = FALSE
    /\ results = Null
    /\ loading = FALSE
    /\ fixedMatches = EmptyObject
    /\ render = <<>>
    /\ form = [content |-> <<>>, language |-> <<"e", "n">>]
    /\ pendingSubmits = {}
    /\ analyzeCalls = {}
    /\ fixCalls = {}
    /\ applied = {}
    /\ analysed = <<>>
    /\ requested = {}
    /\ used = 0
    /\ last = [op |-> "none"]

\* POST up to its first return or to the await of Promise.all (lines 14-67).
\* req.json() throws on a body that is no JSON, inside the try block. The
\* test of line 32 comes after safeParse and refuses nothing safeParse lets
\* through.
Receive ==
    /\ pc = "idle"
    /\ LET parsed == safeParse(reqBody)
       IN  IF reqBody.t = "malformed"
           THEN /\ responses' = Append(responses, CatchResponse(NoResponseError))
                /\ pc' = "responded"
                /\ UNCHANGED outbound
           ELSE IF ~parsed.success
           THEN /\ responses' = Append(responses, InvalidInputResponse)
                /\ pc' = "responded"
                /\ UNCHANGED outbound
           ELSE IF ContentRefused(parsed.data.content)
           THEN /\ responses' = Append(responses, ContentRequiredResponse)
                /\ pc' = "responded"
                /\ UNCHANGED outbound
           ELSE /\ outbound' = OutboundCalls(parsed.data.content, LangOf(parsed.data.language))
                /\ pc' = "awaiting"
                /\ UNCHANGED responses
    /\ UNCHANGED reqBody

\* POST with the two calls awaited to their end, whatever their outcome, and
\* the results of those that succeeded returned
Continue_PartialResults(calls) ==
    IF pc # "awaiting" THEN UNCHANGED <<pc, responses>>
    ELSE IF \A i \in 1..Len(calls) : calls[i].state # "pending"
    THEN /\ responses' = Append(responses,
                Response(200, TRUE, Text("Content analyzed successfully"), Undefined,
                    IF calls[1].state = "fulfilled" /\ calls[1].result.embeddings.t = "array"
                        THEN calls[1].result.embeddings.items[1] ELSE Undefined,
                    IF calls[2].state = "fulfilled"
                        THEN JsArray(calls[2].result.matches) ELSE Undefined))
         /\ pc' = "responded"
    ELSE UNCHANGED <<pc, responses>>

\* what POST does when Promise.all settles or stays pending after calls changed
Continue(calls) ==
    IF pc # "awaiting" THEN UNCHANGED <<pc, responses>>
    ELSE IF \E i \in 1..Len(calls) : calls[i].state = "rejected"
    THEN /\ responses' = Append(responses,
                CatchResponse(calls[CHOOSE i \in 1..Len(calls) :
                                            calls[i].state = "rejected"].result))
         /\ pc' = "responded"
    ELSE IF \A i \in 1..Len(calls) : calls[i].state = "fulfilled"
    THEN /\ responses' = Append(responses, AfterBothFulfilled(calls))
         /\ pc' = "responded"
    ELSE UNCHANGED <<pc, responses>>

\* an outbound call is answered with a 2xx response
Fulfils(i, data) ==
    /\ i \in 1..Len(outbound)
    /\ outbound[i].state = "pending"
    /\ outbound' = [outbound EXCEPT ![i].state = "fulfilled", ![i].result = data]
    /\ Continue(outbound')
    /\ UNCHANGED reqBody

\* an outbound call fails
Rejects(i, error) ==
    /\ i \in 1..Len(outbound)
    /\ outbound[i].state = "pending"
    /\ outbound' = [outbound EXCEPT ![i].state = "rejected", ![i].result = error]
    /\ Continue(outbound')
    /\ UNCHANGED reqBody

NextRoute ==
    \/ Receive /\ UNCHANGED <<formVars, readVars>>
    \/ \E i \in 1..Len(outbound) : \E data \in FulfilData(outbound[i].to) :
            Fulfils(i, data) /\ UNCHANGED <<formVars, readVars>>
    \/ \E i \in 1..Len(outbound), error \in UpstreamErrors :
            Rejects(i, error) /\ UNCHANGED <<formVars, readVars>>

SpecRoute == InitRoute /\ [][NextRoute]_vars

\* the last step was the end of an onsubmit
Resolved == last.op \in {"analyzed", "refused", "threw"}

\* C16: when a submission resolves, the stored results are its response on
\* success and the failure record otherwise, with nothing of the results
\* stored before; so of two submissions in flight at once the one that
\* resolves last decides the stored results.
C16_LastResolvedDecidesResults ==
    /\ last.op = "analyzed" => results = last.arg.body
    /\ last.op \in {"refused", "threw"} => results = FailureResult

\* no submission is in flight any more, and the one that resolved last had
\* been in flight together with another one that resolved before it (which
\* had set isSubmitting back to false) and had stored other Matches
C16_Witness ==
    /\ last.op = "analyzed"
    /\ analyzeCalls = {}
    /\ ~last.isSubmitting
    /\ last.results.t = "response" /\ last.results.success
    /\ Truthy(ResultMatches(last.results))
    /\ Truthy(ResultMatches(results))
    /\ last.results # results
    /\ results = last.arg.body

\* the Matches of the stored results
StoredMatches ==
    IF Truthy(ResultMatches(results)) THEN ResultMatches(results).items ELSE <<>>

\* C17: a stored Match with the offset, the length and the first 20
\* characters of message of a Match whose fix succeeded has the same MatchKey
\* and is not in the corrections bucket, whatever the rest of its message and
\* its replacements.
C17_SameKeyResolvedTogether ==
    \A a \in applied :
        \A i \in 1..Len(StoredMatches) :
            KeyTriple(StoredMatches[i]) = KeyTriple(a) =>
                /\ matchKey(StoredMatches[i]) = matchKey(a)
                /\ ~Occurs(Now.corrections, StoredMatches[i])

\* the fix of one Match succeeded and a stored Match with another message
\* and another replacement, but the same key, is listed as a suggestion
C17_Witness ==
    /\ last.op = "fixed"
    /\ FixAn \in applied
    /\ Occurs(StoredMatches, FixAnAgain)
    /\ Occurs(Earlier.corrections, FixAnAgain)
    /\ Occurs(Now.suggestions, FixAnAgain)
    /\ FixAn.message # FixAnAgain.message
    /\ FixAn.replacements # FixAnAgain.replacements

\* the characters of str in the span of the Match
SpanOf(str, m) == SubSeq(str, m.offset + 1, Min(m.offset + m.length, Len(str)))

\* str with the span of the Match replaced
Substituted(str, m, replacement) ==
    SubSeq(str, 1, Min(m.offset, Len(str))) \o replacement
        \o SubSeq(str, m.offset + m.length + 1, Len(str))

\* the last step was the success of a fix for a stored Match of the content
\* that was analysed
FixedAStoredMatch ==
    /\ last.op = "fixed"
    /\ Occurs(StoredMatches, last.arg.match)
    /\ analysed = last.arg.match.context.text

\* C19: after each successful fix the Content is the Content before the fix
\* with the span of the Match replaced by the replacement, and that span of
\* the Content before the fix holds the text the Match flagged in the
\* analysed content, also after an earlier fix or an edit.
C19_FixReplacesFlaggedText ==
    FixedAStoredMatch =>
        /\ content = Substituted(last.content, last.arg.match, last.arg.replacement)
        /\ SpanOf(last.content, last.arg.match) = SpanOf(analysed, last.arg.match)

\* C20: isSubmitting is true as long as the request of an onsubmit is in
\* flight, and false once an onsubmit has ended, whether with a success
\* response, a success = false response or a thrown error.
C20_SubmittingWhileInFlight ==
    /\ analyzeCalls # {} => isSubmitting
    /\ Resolved => ~isSubmitting

\* no corrections were stored when the last step started (line 129)
NoCorrectionsBefore ==
    ~Truthy(IF last.results.t = "null" THEN Undefined ELSE last.results.corrections)

\* C21 (checked under SpecFixCall): after a failed apply-fix request the
\* Content, the form's content field, the FixedMatchesMap and the stored
\* results are what they were and loading is false; a call of handleFix with
\* no corrections stored dispatches no request and changes no state.
C21_FailedFixLeavesState ==
    /\ last.op = "fixFailed" =>
        /\ content = last.content
        /\ form.content = last.formContent
        /\ fixedMatches = last.fixedMatches
        /\ results = last.results
        /\ ~loading
    /\ (last.op = "fix" /\ NoCorrectionsBefore) =>
        /\ fixCalls = last.fixCalls
        /\ content = last.content
        /\ form.content = last.formContent
        /\ fixedMatches = last.fixedMatches
        /\ results = last.results
        /\ loading = last.loading
        /\ isSubmitting = last.isSubmitting

\* a request failed after another one had succeeded: there was a Content, a
\* recorded fix and a loading flag to lose
C21_Witness ==
    /\ last.op = "fixFailed"
    /\ last.loading
    /\ Len(content) > 0
    /\ KeySet(fixedMatches) # {}
    /\ results = SuccessResponse(<<FixAn, FixCat>>)

\* the last step stored the response of a fix over a Content that another
\* fix, dispatched with the same Content, had produced
LostUpdate ==
    /\ last.op = "fixed"
    /\ \E a \in applied \ {last.arg.match} :
        /\ last.content = Substituted(last.arg.content, a, a.replacements[1])
        /\ last.content # last.arg.content

\* C23: at most one apply-fix request is in flight at any time, and no fix
\* response overwrites the Content another fix made from the Content both
\* were dispatched with.
C23_OneFixInFlight ==
    /\ Cardinality(fixCalls) <= 1
    /\ ~LostUpdate

\* C24: every key of the FixedMatchesMap is the MatchKey of a fix requested
\* after the most recent onsubmit started; the response of a fix requested
\* before it adds no key and leaves the Content as it is.
C24_FixedKeysAreOfThisRun ==
    /\ KeySet(fixedMatches) \subseteq {matchKey(m) : m \in requested}
    /\ (last.op = "fixed" /\ last.arg.match \notin requested) =>
           /\ content = last.content
           /\ fixedMatches = last.fixedMatches

----------------------------------------------------------------------------
(* Claims about the analyze request handler (checked under SpecRoute) *)

Responded == Len(responses) >= 1

TheResponse == responses[1]

Failure(r) ==
    /\ r.body.success = FALSE
    /\ r.body.embedding = Undefined
    /\ r.body.corrections = Undefined

SomeCallRejected == \E i \in 1..Len(outbound) : outbound[i].state = "rejected"

BothCallsFulfilled ==
    /\ Len(outbound) = 2
    /\ \A i \in 1..2 : outbound[i].state = "fulfilled"

\* the body is JSON with a non-empty string as content and a language that is
\* absent or a string
ValidRequest ==
    /\ reqBody.t = "object"
    /\ reqBody.content.t = "string"
    /\ reqBody.content.v # <<>>
    /\ reqBody.language.t \in {"undefined", "string"}

\* C6: if either outbound call rejects, the response is a failure that carries
\* neither the embedding nor the corrections, even when the other call
\* succeeded; a success response has status 200 and is returned only when both
\* calls succeeded.
C6_FailsIfEitherRejects ==
    /\ SomeCallRejected => Responded /\ Failure(TheResponse)
    /\ Responded /\ TheResponse.body.success =>
            TheResponse.status = 200 /\ BothCallsFulfilled

\* C6 witness: the grammar check was rejected, the embedding call succeeded,
\* and the response is a failure.
C6_Witness ==
    /\ Len(outbound) = 2
    /\ outbound[1].state = "fulfilled"
    /\ outbound[2].state = "rejected"
    /\ Responded /\ Failure(TheResponse)

\* C7: for every valid request the handler dispatches exactly two outbound
\* calls, both before it awaits either; it sends its success response only
\* after both calls completed, and it sends exactly one response per request.
C7_TwoCallsOneResponse ==
    /\ Len(responses) <= 1
    /\ pc = "responded" <=> Responded
    /\ ValidRequest /\ pc # "idle" =>
            /\ Len(outbound) = 2
            /\ outbound[1].to = "cohere" /\ outbound[2].to = "languagetool"
            /\ \A i \in 1..2 : outbound[i].text = reqBody.content.v
    /\ pc = "awaiting" => \A i \in 1..Len(outbound) : outbound[i].state # "rejected"
    /\ Responded /\ TheResponse.body.success => BothCallsFulfilled
    /\ BothCallsFulfilled => Responded

\* C7 witness: both calls of a valid request were fulfilled, the grammar check
\* first, and the one response is the success.
C7_Witness ==
    /\ ValidRequest
    /\ BothCallsFulfilled
    /\ Len(responses) = 1
    /\ TheResponse.body.success
    /\ TheResponse.body.corrections = JsArray(<<FixAn, FixCat>>)

\* the body fails schema validation, or its content is empty or not a string
InvalidRequest == ~ValidRequest

\* C8 as stated: if the request body fails schema validation or its content is
\* empty or not a string, the response has status 400 and success = false, and
\* no outbound call is dispatched.
C8_InvalidBodyGets400 ==
    InvalidRequest /\ pc # "idle" =>
        /\ Responded
        /\ TheResponse.status = 400
        /\ TheResponse.body.success = FALSE
        /\ outbound = <<>>

\* C8 amended: the same for a body that is JSON; a body that is not JSON gets
\* the catch block's response, status 500 and success = false, and no outbound
\* call is dispatched either.
C8_InvalidJsonBodyGets400 ==
    InvalidRequest /\ pc # "idle" =>
        /\ Responded
        /\ TheResponse.status = (IF reqBody.t = "malformed" THEN 500 ELSE 400)
        /\ TheResponse.body.success = FALSE
        /\ outbound = <<>>

\* C8 witness: a JSON body whose content is the empty string was answered.
C8_Witness ==
    /\ reqBody.t = "object"
    /\ reqBody.content = JsStr(<<>>)
    /\ Responded
    /\ TheResponse.status = 400

\* the language the request asks for, a string
AskedLanguage == reqBody.language.v

\* C9: the language code sent to the grammar check is one of en, de, fr, es,
\* it: the requested one when it is in that set, "en" when the language is
\* absent or any other string; an unsupported language produces no error
\* response of its own.
C9_LanguageFallsBackToEn ==
    ValidRequest /\ pc # "idle" =>
        /\ Len(outbound) = 2
        /\ outbound[2].language.v \in
              { <<"e", "n">>, <<"d", "e">>, <<"f", "r">>, <<"e", "s">>, <<"i", "t">> }
        /\ outbound[2].language.v =
              IF /\ reqBody.language.t = "string"
                 /\ AskedLanguage \in
                      { <<"e", "n">>, <<"d", "e">>, <<"f", "r">>, <<"e", "s">>, <<"i", "t">> }
              THEN AskedLanguage ELSE <<"e", "n">>
        /\ Responded /\ ~TheResponse.body.success =>
              \/ SomeCallRejected
              \/ outbound[1].state = "fulfilled" /\ outbound[1].result.embeddings = Undefined

\* C9 witness: a request for the unsupported language "xx" was answered with
\* the success response after a grammar check in "en".
C9_Witness ==
    /\ ValidRequest
    /\ reqBody.language = JsStr(<<"x", "x">>)
    /\ Len(outbound) = 2
    /\ outbound[2].language = JsStr(<<"e", "n">>)
    /\ Responded /\ TheResponse.body.success

GenericMessage == Text("Failed to connect to API")

\* the message an upstream response carries: the message member of a JSON
\* body, or the body itself when it is text
UpstreamMessage(response) ==
    IF response.data.t = "object" THEN response.data.message ELSE response.data

\* an exception was raised during handling: the body is no JSON, a call was
\* rejected, or the embeddings were missing from the fulfilled call's data
ExceptionRaised ==
    \/ reqBody.t = "malformed" /\ pc # "idle"
    \/ SomeCallRejected
    \/ BothCallsFulfilled /\ outbound[1].result.embeddings = Undefined

\* C10 as stated: the failure response uses the upstream status code and the
\* upstream message when the failure carries an upstream response, and status
\* 500 with 'Failed to connect to API' otherwise; every exception raised
\* during handling becomes such a response with success = false.
C10_UpstreamStatusAndMessage ==
    ExceptionRaised =>
        /\ Responded
        /\ Failure(TheResponse)
        /\ IF SomeCallRejected
           THEN \E i \in 1..2 :
                  /\ outbound[i].state = "rejected"
                  /\ LET e == outbound[i].result
                     IN  IF e.response.t = "object"
                         THEN /\ TheResponse.status = e.response.status
                              /\ TheResponse.body.error = UpstreamMessage(e.response)
                         ELSE /\ TheResponse.status = 500
                              /\ TheResponse.body.error = GenericMessage
           ELSE TheResponse.status = 500 /\ TheResponse.body.error = GenericMessage

\* C10 amended: the failure response uses the upstream status code when the
\* failure carries an upstream response (500 otherwise), and the message
\* member of the upstream JSON body when that is a non-empty string ('Failed
\* to connect to API' otherwise: no upstream response, a text body, an empty
\* or missing message); every exception raised during handling becomes such a
\* response with success = false.
C10_UpstreamStatusAndJsonMessage ==
    ExceptionRaised =>
        /\ Responded
        /\ Failure(TheResponse)
        /\ IF SomeCallRejected
           THEN \E i \in 1..2 :
                  /\ outbound[i].state = "rejected"
                  /\ LET e == outbound[i].result
                     IN  IF e.response.t = "object"
                         THEN /\ TheResponse.status = e.response.status
                              /\ TheResponse.body.error =
                                   IF /\ e.response.data.t = "object"
                                      /\ e.response.data.message.t = "text"
                                      /\ e.response.data.message.v # ""
                                   THEN e.response.data.message
                                   ELSE GenericMessage
                         ELSE /\ TheResponse.status = 500
                              /\ TheResponse.body.error = GenericMessage
           ELSE TheResponse.status = 500 /\ TheResponse.body.error = GenericMessage

\* C10 witness: the grammar check was rejected with an upstream response whose
\* body is text, and the response has the upstream status and the generic
\* message.
C10_Witness ==
    /\ Len(outbound) = 2
    /\ outbound[2].state = "rejected"
    /\ outbound[1].state # "rejected"
    /\ outbound[2].result.response.t = "object"
    /\ outbound[2].result.response.data.t = "text"
    /\ Responded
    /\ TheResponse.status = outbound[2].result.response.status
    /\ TheResponse.body.error = GenericMessage


----------------------------------------------------------------------------
(* The readability estimator: string operations                            *)
(* (InputContent.tsx, second version lines 488-518, third version lines    *)
(* 884-900).                                                               *)

\* the characters \s matches, of which the texts drawn hold the space
WhiteSpace == {" ", "\t", "\n"}

\* the class [.!?]
SentenceEnds == {".", "!", "?"}

\* the class [aeiouy]
Vowels == {"a", "e", "i", "o", "u", "y"}

\* what the class [^laeiouy] leaves out
NotBeforeSuffix == {"l"} \cup Vowels

UpperCase == <<"A", "B", "C", "D", "E", "F", "G", "H", "I", "J", "K", "L", "M",
               "N", "O", "P", "Q", "R", "S", "T", "U", "V", "W", "X", "Y", "Z">>

LowerCase == <<"a", "b", "c", "d", "e", "f", "g", "h", "i", "j", "k", "l", "m",
               "n", "o", "p", "q", "r", "s", "t", "u", "v", "w", "x", "y", "z">>

\* String.prototype.toLowerCase on the characters modelled
toLowerCase(word) ==
    [i \in 1..Len(word) |->
        IF \E k \in 1..Len(UpperCase) : UpperCase[k] = word[i]
        THEN LowerCase[CHOOSE k \in 1..Len(UpperCase) : UpperCase[k] = word[i]]
        ELSE word[i]]

\* word.replace(/(?:[^laeiouy]es|ed|[^laeiouy]e)$/, ''): the leftmost match
\* ends at the end of the word, so the three-character alternative is tried
\* before the two-character ones
StripSuffix(word) ==
    LET n == Len(word)
    IN  IF n >= 3 /\ word[n-2] \notin NotBeforeSuffix
                  /\ word[n-1] = "e" /\ word[n] = "s"
        THEN SubSeq(word, 1, n - 3)
        ELSE IF n >= 2 /\ \/ word[n-1] = "e" /\ word[n] = "d"
                          \/ word[n-1] \notin NotBeforeSuffix /\ word[n] = "e"
        THEN SubSeq(word, 1, n - 2)
        ELSE word

\* word.replace(/^y/, '')
StripLeadingY(word) ==
    IF Len(word) > 0 /\ word[1] = "y" THEN Tail(word) ELSE word

RECURSIVE VowelRunsFrom(_, _)
\* the matches of /[aeiouy]{1,2}/g from position i on: each takes two vowels
\* when two follow one another, else one
VowelRunsFrom(word, i) ==
    IF i > Len(word) THEN 0
    ELSE IF word[i] \in Vowels
    THEN 1 + VowelRunsFrom(word,
                 IF i + 1 <= Len(word) /\ word[i+1] \in Vowels THEN i + 2 ELSE i + 1)
    ELSE VowelRunsFrom(word, i + 1)

\* countSyllables of the second version (lines 488-494)
countSyllables(word) ==
    LET stripped == StripLeadingY(StripSuffix(toLowerCase(word)))
        found    == VowelRunsFrom(stripped, 1)
    IN  IF found > 0 THEN found ELSE 1

\* countSyllables of the third version (lines 884-891)
countSyllablesV3(word) ==
    LET lower == toLowerCase(word)
    IN  IF Len(lower) <= 3 THEN 1
        ELSE LET stripped == StripLeadingY(StripSuffix(lower))
                 found    == VowelRunsFrom(stripped, 1)
             IN  IF found > 0 THEN found ELSE 1

RECURSIVE TrimStart(_)
TrimStart(str) ==
    IF Len(str) > 0 /\ str[1] \in WhiteSpace THEN TrimStart(Tail(str)) ELSE str

RECURSIVE TrimEnd(_)
TrimEnd(str) ==
    IF Len(str) > 0 /\ str[Len(str)] \in WhiteSpace
    THEN TrimEnd(SubSeq(str, 1, Len(str) - 1)) ELSE str

\* String.prototype.trim
trim(str) == TrimEnd(TrimStart(str))

RECURSIVE SplitFrom(_, _, _, _, _)
\* str.split(/[class]+/): the fragments between the runs of separators, the
\* empty fragments before a leading run and after a trailing run included
SplitFrom(str, class, i, fragment, done) ==
    IF i > Len(str) THEN Append(done, fragment)
    ELSE IF str[i] \in class
    THEN IF i > 1 /\ str[i-1] \in class
         THEN SplitFrom(str, class, i + 1, fragment, done)
         ELSE SplitFrom(str, class, i + 1, <<>>, Append(done, fragment))
    ELSE SplitFrom(str, class, i + 1, Append(fragment, str[i]), done)

split(str, class) == SplitFrom(str, class, 1, <<>>, <<>>)

\* text.split(/[.!?]+/).filter(Boolean): the empty string is falsy
SentencesOf(str) == SelectSeq(split(str, SentenceEnds), LAMBDA f : Len(f) > 0)

\* text.trim().split(/\s+/)
WordsOf(str) == split(trim(str), WhiteSpace)

RECURSIVE SumOf(_, _)
\* words.reduce((sum, word) => sum + count(word), 0)
SumOf(counts, i) == IF i > Len(counts) THEN 0 ELSE counts[i] + SumOf(counts, i + 1)


----------------------------------------------------------------------------
(* The readability estimator: numbers and scores.  A finite number is the  *)
(* exact ratio num / den in lowest terms; the rounding error of the        *)
(* double-precision operations is left out.                                *)

RECURSIVE GCD(_, _)
GCD(a, b) == IF b = 0 THEN a ELSE GCD(b, a % b)

Abs(n) == IF n < 0 THEN -n ELSE n

\* the number num / den, den > 0
Finite(num, den) ==
    LET g == GCD(Abs(num), den)
    IN  [t |-> "number", kind |-> "finite", num |-> num \div g, den |-> den \div g]

PlusInfinity == [t |-> "number", kind |-> "Infinity", num |-> 1, den |-> 0]

MinusInfinity == [t |-> "number", kind |-> "-Infinity", num |-> -1, den |-> 0]

NaN == [t |-> "number", kind |-> "NaN", num |-> 0, den |-> 0]

IsFinite(x) == x.kind = "finite"

\* a / b for two counts: a division by zero gives Infinity, or NaN for 0 / 0
Divide(a, b) ==
    IF b > 0 THEN Finite(a, b)
    ELSE IF a > 0 THEN PlusInfinity
    ELSE NaN

\* 206.835 - 1.015 * asl - 84.6 * asw, for asl and asw that are not negative
Flesch(asl, asw) ==
    IF asl.kind = "NaN" \/ asw.kind = "NaN" THEN NaN
    ELSE IF asl.kind = "Infinity" \/ asw.kind = "Infinity" THEN MinusInfinity
    ELSE Finite(206835 * asl.den * asw.den - 1015 * asl.num * asw.den
                    - 84600 * asw.num * asl.den,
                1000 * asl.den * asw.den)

\* Number(x.toFixed(digits)), parseFloat(x.toFixed(digits)): the nearest
\* multiple of 10^-digits, the larger one of two equally near; Infinity and
\* NaN are printed and read back as themselves
NumberToFixed(x, digits) ==
    LET scale == 10 ^ digits
    IN  IF IsFinite(x)
        THEN Finite((2 * x.num * scale + x.den) \div (2 * x.den), scale)
        ELSE x

\* x >= n for an integer n
AtLeast(x, n) ==
    \/ x.kind = "Infinity"
    \/ IsFinite(x) /\ x.num >= n * x.den

\* calculateReadabilityScore (lines 496-508) with the divisors of its two
\* divisions, none when it returns before them
ReadabilityScoreRun(str) ==
    IF Len(trim(str)) = 0 THEN [score |-> Finite(0, 1), divisors |-> <<>>]
    ELSE LET sentences == SentencesOf(str)
             words == WordsOf(str)
             totalSyllables ==
                 SumOf([i \in 1..Len(words) |-> countSyllables(words[i])], 1)
             wordsPerSentence == Divide(Len(words), Len(sentences))
             syllablesPerWord == Divide(totalSyllables, Len(words))
         IN  [score |-> NumberToFixed(Flesch(wordsPerSentence, syllablesPerWord), 1),
              divisors |-> <<Len(sentences), Len(words)>>]

calculateReadabilityScore(str) == ReadabilityScoreRun(str).score

\* getFleschReadingEase (lines 893-900) with the divisors of its two divisions
FleschReadingEaseRun(str) ==
    LET sentences == Len(SentencesOf(str))
        words == WordsOf(str)
        syllables == SumOf([i \in 1..Len(words) |-> countSyllablesV3(words[i])], 1)
        sentenceDivisor == IF sentences = 0 THEN 1 ELSE sentences
        wordDivisor == IF Len(words) = 0 THEN 1 ELSE Len(words)
        ASL == Divide(Len(words), sentenceDivisor)
        ASW == Divide(syllables, wordDivisor)
    IN  [score |-> Flesch(ASL, ASW), divisors |-> <<sentenceDivisor, wordDivisor>>]

getFleschReadingEase(str) == FleschReadingEaseRun(str).score

\* lines 510-518 with the first band starting above 90
getReadabilityLevel_Above90(score) ==
    IF AtLeast(score, 90) /\ score # Finite(90, 1)
    THEN [level |-> "Very Easy", color |-> "text-green-500"]
    ELSE IF AtLeast(score, 80) THEN [level |-> "Easy", color |-> "text-emerald-500"]
    ELSE IF AtLeast(score, 70) THEN [level |-> "Fairly Easy", color |-> "text-blue-500"]
    ELSE IF AtLeast(score, 60) THEN [level |-> "Standard", color |-> "text-yellow-500"]
    ELSE IF AtLeast(score, 50)
    THEN [level |-> "Fairly Difficult", color |-> "text-orange-500"]
    ELSE IF AtLeast(score, 30) THEN [level |-> "Difficult", color |-> "text-red-500"]
    ELSE [level |-> "Very Difficult", color |-> "text-red-600"]

\* getReadabilityLevel (lines 510-518)
getReadabilityLevel(score) ==
    IF AtLeast(score, 90) THEN [level |-> "Very Easy", color |-> "text-green-500"]
    ELSE IF AtLeast(score, 80) THEN [level |-> "Easy", color |-> "text-emerald-500"]
    ELSE IF AtLeast(score, 70) THEN [level |-> "Fairly Easy", color |-> "text-blue-500"]
    ELSE IF AtLeast(score, 60) THEN [level |-> "Standard", color |-> "text-yellow-500"]
    ELSE IF AtLeast(score, 50)
    THEN [level |-> "Fairly Difficult", color |-> "text-orange-500"]
    ELSE IF AtLeast(score, 30) THEN [level |-> "Difficult", color |-> "text-red-500"]
    ELSE [level |-> "Very Difficult", color |-> "text-red-600"]


----------------------------------------------------------------------------
(* SpecReadability: the two estimators applied to every text of at most    *)
(* MaxTextLen characters.  SpecLevel: getReadabilityLevel applied to       *)
(* scores on both sides of every threshold.                                *)

\* longest text drawn as input of the estimators
MaxTextLen == 4

\* tenths drawn on each side of a threshold of getReadabilityLevel
Spread == 1

\* the component and the request handler in the specifications of the
\* estimator, which run neither
FormUnused ==
    /\ content = <<>>
    /\ isSubmitting = FALSE
    /\ results = Null
    /\ loading = FALSE
    /\ fixedMatches = EmptyObject
    /\ render = <<>>
    /\ form = [content |-> <<>>, language |-> <<"e", "n">>]
    /\ pendingSubmits = {}
    /\ analyzeCalls = {}
    /\ fixCalls = {}
    /\ applied = {}
    /\ analysed = <<>>
    /\ requested = {}
    /\ used = 0
    /\ last = [op |-> "none"]

RouteUnused ==
    /\ pc = "idle"
    /\ reqBody = Undefined
    /\ outbound = <<>>
    /\ responses = <<>>

\* a vowel, a letter of the suffixes in both cases, two consonants of them,
\* the letter stripped in front, a space and a sentence end
Alphabet == {"a", "e", "E", "d", "s", "y", " ", "."}

Texts == UNION {[1..n -> Alphabet] : n \in 0..MaxTextLen}

InitReadability ==
    /\ sample \in Texts
    /\ estimate = Undefined
    /\ scores = <<>>
    /\ levels = Undefined
    /\ FormUnused
    /\ RouteUnused

\* the estimator of the second version applied to the text, as the render
\* does with the content (lines 735-737)
Estimate ==
    /\ estimate = Undefined
    /\ LET run == ReadabilityScoreRun(sample)
           words == WordsOf(sample)
       IN  estimate' =
               [by |-> "calculateReadabilityScore",
                words |-> words,
                syllables |-> [i \in 1..Len(words) |-> countSyllables(words[i])],
                divisors |-> run.divisors,
                score |-> calculateReadabilityScore(sample),
                level |-> getReadabilityLevel(calculateReadabilityScore(sample)).level]
    /\ UNCHANGED <<sample, scores, levels>>

\* the estimator of the third version applied to the text, as onsubmit does
\* with the submitted content (lines 907-910)
EstimateV3 ==
    /\ estimate = Undefined
    /\ LET run == FleschReadingEaseRun(sample)
           words == WordsOf(sample)
       IN  estimate' =
               [by |-> "getFleschReadingEase",
                words |-> words,
                syllables |-> [i \in 1..Len(words) |-> countSyllablesV3(words[i])],
                divisors |-> run.divisors,
                score |-> NumberToFixed(getFleschReadingEase(sample), 2),
                level |-> "none"]
    /\ UNCHANGED <<sample, scores, levels>>

NextReadability ==
    \/ Estimate /\ UNCHANGED <<formVars, routeVars>>
    \/ EstimateV3 /\ UNCHANGED <<formVars, routeVars>>

SpecReadability == InitReadability /\ [][NextReadability]_vars

\* the thresholds of lines 511-516
Thresholds == {90, 80, 70, 60, 50, 30}

ScoreInputs ==
    {Finite(10 * th + d, 10) : th \in Thresholds, d \in (-Spread)..Spread}
        \cup {Finite(0, 1), Finite(-5, 1), Finite(12122, 100),
              MinusInfinity, PlusInfinity, NaN}

InitLevel ==
    /\ scores \in ScoreInputs \X ScoreInputs
    /\ levels = Undefined
    /\ sample = <<>>
    /\ estimate = Undefined
    /\ FormUnused
    /\ RouteUnused

\* getReadabilityLevel applied to the two scores
Level ==
    /\ levels = Undefined
    /\ levels' = <<getReadabilityLevel(scores[1]), getReadabilityLevel(scores[2])>>
    /\ UNCHANGED <<sample, estimate, scores>>

NextLevel == Level /\ UNCHANGED <<formVars, routeVars>>

SpecLevel == InitLevel /\ [][NextLevel]_vars


----------------------------------------------------------------------------
(* Claims about the readability estimator *)

Estimated == estimate # Undefined

\* C11: for every text that is not empty, each division of the estimator
\* has a divisor of at least 1 (the sentence count also for a text made of
\* sentence ends only) and the score returned is a finite number.
C11_NoDivisionByZero ==
    (Estimated /\ Len(sample) > 0) =>
        /\ \A i \in 1..Len(estimate.divisors) : estimate.divisors[i] >= 1
        /\ IsFinite(estimate.score)

\* C12: for a text that is empty or made of white space only, the estimator
\* returns the score 0 and makes none of its divisions.
C12_BlankTextScoresZero ==
    (Estimated /\ Len(trim(sample)) = 0) =>
        /\ estimate.score = Finite(0, 1)
        /\ estimate.divisors = <<>>

\* C13: countSyllables returns 1 for every word of at most 3 characters and
\* an integer of at least 1 for every word.
C13_SyllablesOfShortWords ==
    Estimated =>
        \A i \in 1..Len(estimate.words) :
            /\ estimate.syllables[i] \in Nat
            /\ estimate.syllables[i] >= 1
            /\ Len(estimate.words[i]) <= 3 => estimate.syllables[i] = 1

\* x < n for an integer n
Below(x, n) ==
    \/ x.kind = "-Infinity"
    \/ IsFinite(x) /\ x.num < n * x.den

\* x < y
Less(x, y) ==
    /\ x.kind # "NaN" /\ y.kind # "NaN"
    /\ x # y
    /\ \/ x.kind = "-Infinity"
       \/ y.kind = "Infinity"
       \/ IsFinite(x) /\ IsFinite(y) /\ x.num * y.den < y.num * x.den

Bands == <<"Very Difficult", "Difficult", "Fairly Difficult", "Standard",
           "Fairly Easy", "Easy", "Very Easy">>

\* the place of a band, from the hardest to the easiest
BandRank(level) == CHOOSE k \in 1..Len(Bands) : Bands[k] = level

Levelled == levels # Undefined

\* C14: getReadabilityLevel gives every score one band, each band starting
\* at its threshold and ending below the next one, negative scores in Very
\* Difficult; of two scores the higher one never gets the harder band.
C14_BandsByInclusiveThresholds ==
    Levelled =>
        /\ \A i \in 1..2 :
            LET x == scores[i]
                level == levels[i].level
            IN  /\ \E k \in 1..Len(Bands) : Bands[k] = level
                /\ AtLeast(x, 90) => level = "Very Easy"
                /\ (AtLeast(x, 80) /\ Below(x, 90)) => level = "Easy"
                /\ (AtLeast(x, 70) /\ Below(x, 80)) => level = "Fairly Easy"
                /\ (AtLeast(x, 60) /\ Below(x, 70)) => level = "Standard"
                /\ (AtLeast(x, 50) /\ Below(x, 60)) => level = "Fairly Difficult"
                /\ (AtLeast(x, 30) /\ Below(x, 50)) => level = "Difficult"
                /\ Below(x, 30) => level = "Very Difficult"
        /\ Less(scores[1], scores[2]) =>
               BandRank(levels[1].level) <= BandRank(levels[2].level)

\* a score on a threshold and the score a tenth below it were given their bands
C14_Witness ==
    /\ Levelled
    /\ scores = <<Finite(899, 10), Finite(90, 1)>>
    /\ levels[1].level = "Easy"
    /\ levels[2].level = "Very Easy"


----------------------------------------------------------------------------
(* SpecEndToEnd: the form of the first version and the analyze request     *)
(* handler together.  The request of onsubmit is the body the handler      *)
(* receives and the handler's response is what onsubmit awaits; the        *)
(* handler serves the requests one after the other.                        *)

\* axios.post("/api/analyze", data) (line 93): the form values as JSON
RequestOf(data) ==
    [t |-> "object", content |-> JsStr(data.content), language |-> JsStr(data.language)]

\* response.data (line 94): the JSON body of the handler's response, read
\* as a ReadabilityResponse
AsResults(body) ==
    [t |-> "response", success |-> body.success, corrections |-> body.corrections]

\* the request of a pending onsubmit reaches the handler
Deliver(c) ==
    /\ c \in analyzeCalls
    /\ \/ pc = "idle" /\ reqBody = Undefined
       \/ pc = "answered"
    /\ reqBody' = RequestOf(c.data)
    /\ pc' = "idle"
    /\ outbound' = <<>>
    /\ responses' = <<>>

\* POST starts on the request delivered
ReceiveDelivered ==
    /\ reqBody # Undefined
    /\ Receive

\* the handler's response reaches the onsubmit that awaits it (lines 93-124):
\* axios throws on a status outside 2xx
Answered(c) ==
    /\ pc = "responded"
    /\ c \in analyzeCalls
    /\ RequestOf(c.data) = reqBody
    /\ LET response == responses[Len(responses)]
       IN  IF response.status \in 200..299
           THEN IF response.body.success = TRUE
                THEN AnalyzeSucceeded(c, AsResults(response.body))
                ELSE AnalyzeRefused(c)
           ELSE AnalyzeThrew(c)
    /\ pc' = "answered"
    /\ UNCHANGED <<reqBody, outbound, responses>>

InitEndToEnd ==
    /\ InitForm
    /\ reqBody = Undefined

NextEndToEnd ==
    \/ \E str \in UserTexts : EditContent(str) /\ UNCHANGED <<routeVars, readVars>>
    \/ \E lang \in LANGUAGES : SelectLanguage(lang) /\ UNCHANGED <<routeVars, readVars>>
    \/ SubmitClick /\ UNCHANGED <<routeVars, readVars>>
    \/ \E p \in pendingSubmits : SubmitRejected(p) /\ UNCHANGED <<routeVars, readVars>>
    \/ \E p \in pendingSubmits : OnsubmitStart(p) /\ UNCHANGED <<routeVars, readVars>>
    \/ \E c \in analyzeCalls : Deliver(c) /\ UNCHANGED <<formVars, readVars>>
    \/ ReceiveDelivered /\ UNCHANGED <<formVars, readVars>>
    \/ \E i \in 1..Len(outbound) : \E data \in FulfilData(outbound[i].to) :
            Fulfils(i, data) /\ UNCHANGED <<formVars, readVars>>
    \/ \E i \in 1..Len(outbound), error \in UpstreamErrors :
            Rejects(i, error) /\ UNCHANGED <<formVars, readVars>>
    \/ \E c \in analyzeCalls : Answered(c) /\ UNCHANGED readVars

SpecEndToEnd == InitEndToEnd /\ [][NextEndToEnd]_vars

----------------------------------------------------------------------------
(* Claims about the form and the handler together (SpecEndToEnd) *)

\* the Matches the grammar check returned to the handler
GrammarMatches ==
    IF Len(outbound) = 2 /\ outbound[2].state = "fulfilled"
    THEN outbound[2].result.matches ELSE <<>>

\* the form has just stored the handler's success response
StoredSuccess ==
    /\ pc = "answered"
    /\ last.op = "analyzed"
    /\ responses[Len(responses)].body.success = TRUE

\* C15: once the form has stored the handler's response to a valid
\* submission, and before any fix, every Match with exactly one replacement
\* that the grammar check returned is in the corrections bucket computed from
\* the stored results.
C15_ReturnedMatchIsCorrection ==
    StoredSuccess =>
        \A i \in 1..Len(GrammarMatches) :
            Len(GrammarMatches[i].replacements) = 1 =>
                Occurs(Now.corrections, GrammarMatches[i])

============================================================================
